---- MODULE Spec2Model ----
(***************************************************************************)
(* A model of pkg/common/rate_limiter.go: the token bucket (RateLimiter),  *)
(* the composite limiter (CompositeRateLimiter), its Allow method run by   *)
(* concurrent request goroutines, and the processQueue goroutine started   *)
(* by NewCompositeRateLimiter.                                             *)
(*                                                                         *)
(* Time is a clock counted in seconds.  Every call of time.Now() inside    *)
(* one critical section reads the same clock value.  Each Allow call is    *)
(* one goroutine; the wait channel it makes is named by the call.          *)
(***************************************************************************)
EXTENDS Integers, Sequences, FiniteSets

\* ------------------------------------------------------------------ bounds
\* Number of Allow calls (request goroutines) of one run.
NumCalls == 2

\* The clock stops advancing at MaxClock seconds.
MaxClock == 5

\* Number of RateLimiter.Allow calls of one run of BucketSpec.
MaxBucketCalls == 5

\* The length of a long idle period, in fill intervals.
LongIdleIntervals == 100

\* The keys (ip strings) callers pass to Allow.
Keys == {"a", "b"}

\* The configurations NewCompositeRateLimiter is called with.
IpCapacities == {0, 1}
GlobalCapacities == {0, 1, NumCalls + 1}
FillIntervals == {2, 3}

\* ------------------------------------------------------- program constants
\* time.After(5 * time.Second)
Timeout == 5

\* A timed-out message that is empty.
TimeoutMessage_Empty == ""

\* The message of line 151.  The module is written in ASCII, so the string
\* literal of the source is given in Go's ASCII-quoted form: these escapes
\* denote the eleven characters of the literal (U+8BF7 U+6C42 U+8D85 U+65F6
\* U+FF0C U+8BF7 U+7A0D U+540E U+518D U+8BD5 U+FF01).
TimeoutMessage ==
    "\\u8bf7\\u6c42\\u8d85\\u65f6\\uff0c\\u8bf7\\u7a0d\\u540e\\u518d\\u8bd5\\uff01"

Calls == 1..NumCalls

\* The processQueue goroutine, as a holder of the mutex.
Drainer == NumCalls + 1

NoLimiter == [capacity |-> -1, tokens |-> -1, fillInterval |-> -1, lastTokenTime |-> -1]

\* A goroutine that serves no request, and a request not yet answered.
NoRequest == [remoteAddr |-> "", forwardedFor |-> ""]
NoResponse == [status |-> -1, body |-> "", next |-> FALSE]

VARIABLES
    ipCapacity,      \* CompositeRateLimiter.ipCapacity
    globalCapacity,  \* CompositeRateLimiter.globalCapacity
    globalLimiter,   \* CompositeRateLimiter.globalLimiter
    ipLimiters,      \* CompositeRateLimiter.ipLimiters
    queue,           \* CompositeRateLimiter.queue: the wait channels, by call
    queueSignal,     \* number of values buffered in queueSignal (capacity 1)
    mutex,           \* CompositeRateLimiter.mutex: its holder (0: unlocked)
    clock,           \* time.Now(), in seconds since construction
    pc,              \* each Allow call's position
    key,             \* each Allow call's ip argument
    wait,            \* each call's wait channel: "none", "open", "closed"
    deadline,        \* when each call's time.After channel fires
    result,          \* each call's return value
    admission,       \* how line 126 evaluated for each call
    dpc,             \* processQueue's position
    dwait,           \* processQueue's local wait (0: none)
    enqOrder,        \* history: the calls in the order they were appended
    returns,         \* BucketSpec: each RateLimiter.Allow call's time and result
    request,         \* MiddlewareSpec: the request each handler goroutine serves
    response         \* MiddlewareSpec: what the handler did with Allow's result

vars == <<ipCapacity, globalCapacity, globalLimiter, ipLimiters, queue, queueSignal,
          mutex, clock, pc, key, wait, deadline, result, admission, dpc, dwait,
          enqOrder, returns, request, response>>

\* The variables only MiddlewareSpec changes.
httpVars == <<request, response>>

\* The variables only BucketSpec changes.
bucketVars == <<returns>>

\* The variables only Spec changes.
compositeVars == <<ipCapacity, globalCapacity, ipLimiters, queue, queueSignal, mutex,
                   pc, key, wait, deadline, result, admission, dpc, dwait, enqOrder>>

\* ------------------------------------------------------------ RateLimiter
\* Go's integer division truncates toward zero.
GoDiv(a, b) ==
    LET abs(x) == IF x < 0 THEN -x ELSE x
        q == abs(a) \div abs(b)
    IN  IF (a < 0) = (b < 0) THEN q ELSE -q

min(a, b) == IF a < b THEN a ELSE b

\* A constructor that starts the bucket empty instead of full.
NewRateLimiter_Empty(capacity, fillInterval, now) ==
    [tokens |-> 0, capacity |-> capacity,
     fillInterval |-> fillInterval, lastTokenTime |-> now]

NewRateLimiter(capacity, fillInterval, now) ==
    [capacity |-> capacity, tokens |-> capacity,
     fillInterval |-> fillInterval, lastTokenTime |-> now]

\* A refill that forgets the capacity.
Refill_NoCap(rl, now) ==
    LET elapsed == now - rl.lastTokenTime
        tokensToAdd == GoDiv(elapsed, rl.fillInterval)
    IN  IF tokensToAdd > 0
        THEN [rl EXCEPT !.tokens = rl.tokens + tokensToAdd,
                        !.lastTokenTime = now]
        ELSE rl

\* A refill that adds nothing until two fill intervals have elapsed.
Refill_TwoIntervals(rl, now) ==
    LET elapsed == now - rl.lastTokenTime
        tokensToAdd == GoDiv(elapsed, rl.fillInterval)
    IN  IF tokensToAdd > 1
        THEN [rl EXCEPT !.tokens = min(rl.capacity, rl.tokens + tokensToAdd),
                        !.lastTokenTime = now]
        ELSE rl

\* A refill that keeps the remainder of the elapsed time for the next call.
Refill_KeepsRemainder(rl, now) ==
    LET elapsed == now - rl.lastTokenTime
        tokensToAdd == GoDiv(elapsed, rl.fillInterval)
    IN  IF tokensToAdd > 0
        THEN [rl EXCEPT !.tokens = min(rl.capacity, rl.tokens + tokensToAdd),
                        !.lastTokenTime = rl.lastTokenTime
                                             + tokensToAdd * rl.fillInterval]
        ELSE rl

\* The refill step of RateLimiter.Allow (lines 55-63).
Refill(rl, now) ==
    LET elapsed == now - rl.lastTokenTime
        tokensToAdd == GoDiv(elapsed, rl.fillInterval)
    IN  IF tokensToAdd > 0
        THEN [rl EXCEPT !.tokens = min(rl.capacity, rl.tokens + tokensToAdd),
                        !.lastTokenTime = now]
        ELSE rl

\* A RateLimiter.Allow that admits without taking the token.
RateLimiterAllow_NoDecrement(rl, now) ==
    LET r == Refill(rl, now)
    IN  IF r.tokens > 0
        THEN [ok |-> TRUE, rl |-> r]
        ELSE [ok |-> FALSE, rl |-> r]

\* A RateLimiter.Allow that takes a token even when it denies.
RateLimiterAllow_DecrementOnDeny(rl, now) ==
    LET r == Refill(rl, now)
    IN  [ok |-> r.tokens > 0, rl |-> [r EXCEPT !.tokens = r.tokens - 1]]

\* RateLimiter.Allow: the value returned and the limiter afterwards.
RateLimiterAllow(rl, now) ==
    LET r == Refill(rl, now)
    IN  IF r.tokens > 0
        THEN [ok |-> TRUE, rl |-> [r EXCEPT !.tokens = r.tokens - 1]]
        ELSE [ok |-> FALSE, rl |-> r]

\* --------------------------------------------------- CompositeRateLimiter
\* A lookup that makes a new limiter on every call.
GetOrCreate_AlwaysNew(ips, ip, now) ==
    NewRateLimiter(ipCapacity, globalLimiter.fillInterval, now)

\* Lines 119-123: the key's limiter, created on first use.
GetOrCreate(ips, ip, now) ==
    IF ips[ip] # NoLimiter THEN ips[ip]
    ELSE NewRateLimiter(ipCapacity, globalLimiter.fillInterval, now)

\* Line 126 without the short-circuit: both limiters are always evaluated.
Admit_NoShortCircuit(g, ipl, now) ==
    LET ga == RateLimiterAllow(g, now)
        ia == RateLimiterAllow(ipl, now)
    IN  IF ~ga.ok THEN [path |-> "globalDeny", g |-> ga.rl, ipl |-> ia.rl]
        ELSE IF ~ia.ok THEN [path |-> "ipDeny", g |-> ga.rl, ipl |-> ia.rl]
        ELSE [path |-> "immediate", g |-> ga.rl, ipl |-> ia.rl]

\* Line 126 with the operands swapped: ipLimiter.Allow() && globalLimiter.Allow().
Admit_IpFirst(g, ipl, now) ==
    LET ga == RateLimiterAllow(g, now)
        ia == RateLimiterAllow(ipl, now)
    IN  IF ~ia.ok THEN [path |-> "ipDeny", g |-> g, ipl |-> ia.rl]
        ELSE IF ~ga.ok THEN [path |-> "globalDeny", g |-> ga.rl, ipl |-> ia.rl]
        ELSE [path |-> "immediate", g |-> ga.rl, ipl |-> ia.rl]

\* Line 126 with an admission that leaves the key's token in place.
Admit_KeepsIpToken(g, ipl, now) ==
    LET ga == RateLimiterAllow(g, now)
        ia == RateLimiterAllow(ipl, now)
    IN  IF ~ga.ok THEN [path |-> "globalDeny", g |-> ga.rl, ipl |-> ipl]
        ELSE IF ~ia.ok THEN [path |-> "ipDeny", g |-> ga.rl, ipl |-> ia.rl]
        ELSE [path |-> "immediate", g |-> ga.rl, ipl |-> Refill(ipl, now)]

\* Line 126: globalLimiter.Allow() && ipLimiter.Allow(), with Go's
\* short-circuit.  The outcome and both limiters afterwards.
Admit(g, ipl, now) ==
    LET ga == RateLimiterAllow(g, now)
        ia == RateLimiterAllow(ipl, now)
    IN  IF ~ga.ok THEN [path |-> "globalDeny", g |-> ga.rl, ipl |-> ipl]
        ELSE IF ~ia.ok THEN [path |-> "ipDeny", g |-> ga.rl, ipl |-> ia.rl]
        ELSE [path |-> "immediate", g |-> ga.rl, ipl |-> ia.rl]

Init ==
    /\ ipCapacity \in IpCapacities
    /\ globalCapacity \in GlobalCapacities
    /\ \E fi \in FillIntervals :
          globalLimiter = NewRateLimiter(globalCapacity, fi, 0)
    /\ ipLimiters = [k \in Keys |-> NoLimiter]
    /\ queue = <<>>
    /\ queueSignal = 0
    /\ mutex = 0
    /\ clock = 0
    /\ pc = [c \in Calls |-> "idle"]
    /\ key = [c \in Calls |-> "none"]
    /\ wait = [c \in Calls |-> "none"]
    /\ deadline = [c \in Calls |-> -1]
    /\ result = [c \in Calls |-> [allowed |-> FALSE, message |-> "pending"]]
    /\ admission = [c \in Calls |-> "none"]
    /\ dpc = "recv"
    /\ dwait = 0
    /\ enqOrder = <<>>
    /\ returns = <<>>
    /\ request = [c \in Calls |-> NoRequest]
    /\ response = [c \in Calls |-> NoResponse]

\* Time passes.
Tick ==
    /\ clock < MaxClock
    /\ clock' = clock + 1
    /\ UNCHANGED <<ipCapacity, globalCapacity, globalLimiter, ipLimiters, queue,
                   queueSignal, mutex, pc, key, wait, deadline, result, admission,
                   dpc, dwait, enqOrder>>
    /\ UNCHANGED bucketVars
    /\ UNCHANGED httpVars

\* A request goroutine calls Allow(ip).  Calls are numbered in the order
\* they start.
Call(c, ip) ==
    /\ pc[c] = "idle"
    /\ \A d \in Calls : d < c => pc[d] # "idle"
    /\ pc' = [pc EXCEPT ![c] = "lock"]
    /\ key' = [key EXCEPT ![c] = ip]
    /\ UNCHANGED <<ipCapacity, globalCapacity, globalLimiter, ipLimiters, queue,
                   queueSignal, mutex, clock, wait, deadline, result, admission,
                   dpc, dwait, enqOrder>>
    /\ UNCHANGED bucketVars
    /\ UNCHANGED httpVars

\* A lock that can be taken while it is held.
Unlocked_Always == TRUE

\* Lines 116 and 159: mutex.Lock() returns only when no goroutine holds the
\* mutex.
Unlocked == mutex = 0

\* Line 116: mutex.Lock().
AllowLock(c) ==
    /\ pc[c] = "lock"
    /\ Unlocked
    /\ mutex' = c
    /\ pc' = [pc EXCEPT ![c] = "locked"]
    /\ UNCHANGED <<ipCapacity, globalCapacity, globalLimiter, ipLimiters, queue,
                   queueSignal, clock, key, wait, deadline, result, admission,
                   dpc, dwait, enqOrder>>
    /\ UNCHANGED bucketVars
    /\ UNCHANGED httpVars

\* A doorbell with an unbounded buffer.
Signal_Unbounded(n) == n + 1

\* An enqueue that does not ring the doorbell.
Signal_Dropped(n) == n

\* Lines 138-141: the non-blocking send on queueSignal (buffer of 1).
Signal(n) == IF n < 1 THEN n + 1 ELSE n

\* An Allow that keeps the mutex when it leaves its critical section.
Unlock_Missing(c) == c

\* Lines 127 and 144: mutex.Unlock() by the caller that holds it.
Unlock(c) == 0

\* Lines 119-144, the critical section of Allow: look the limiter up or
\* create it and evaluate line 126.  On success unlock and return
\* (true, ""); otherwise make the wait channel, append it, signal and
\* unlock.  The caller has then left the critical section and has not yet
\* entered the select of line 147.
AllowBody(c) ==
    /\ pc[c] = "locked"
    /\ mutex = c
    /\ LET ipl == GetOrCreate(ipLimiters, key[c], clock)
           a == Admit(globalLimiter, ipl, clock)
       IN  /\ globalLimiter' = a.g
           /\ ipLimiters' = [ipLimiters EXCEPT ![key[c]] = a.ipl]
           /\ admission' = [admission EXCEPT ![c] = a.path]
           /\ IF a.path = "immediate"
              THEN /\ pc' = [pc EXCEPT ![c] = "done"]
                   /\ result' = [result EXCEPT ![c] = [allowed |-> TRUE, message |-> ""]]
                   /\ UNCHANGED <<wait, queue, enqOrder, queueSignal>>
              ELSE /\ wait' = [wait EXCEPT ![c] = "open"]
                   /\ queue' = Append(queue, c)
                   /\ enqOrder' = Append(enqOrder, c)
                   /\ queueSignal' = Signal(queueSignal)
                   /\ pc' = [pc EXCEPT ![c] = "select"]
                   /\ UNCHANGED result
    /\ mutex' = Unlock(c)
    /\ UNCHANGED <<ipCapacity, globalCapacity, clock, key, deadline, dpc, dwait>>
    /\ UNCHANGED bucketVars
    /\ UNCHANGED httpVars

\* Lines 147 and 150: the caller enters the select; time.After(5 *
\* time.Second) is evaluated now, so the timer runs from this moment, which
\* can be later than the enqueue.
AllowSelect(c) ==
    /\ pc[c] = "select"
    /\ deadline' = [deadline EXCEPT ![c] = clock + Timeout]
    /\ pc' = [pc EXCEPT ![c] = "waiting"]
    /\ UNCHANGED <<ipCapacity, globalCapacity, globalLimiter, ipLimiters, queue,
                   queueSignal, mutex, clock, key, wait, result, admission, dpc,
                   dwait, enqOrder>>
    /\ UNCHANGED bucketVars
    /\ UNCHANGED httpVars

\* Lines 150-151: the value returned when the timer fires first.
TimeoutResult == [allowed |-> FALSE, message |-> TimeoutMessage]

\* A timer that may fire at any time.
TimerFired_Early(c) == TRUE

\* Line 150: the channel of time.After(5 * time.Second), armed when the
\* select was entered, is ready.
TimerFired(c) == clock >= deadline[c]

\* A timeout that takes the caller's entry out of the queue.
QueueAfterTimeout_Removed(q, c) ==
    LET Keep(x) == x # c
    IN  SelectSeq(q, Keep)

\* Lines 150-151: the timer branch returns without touching the queue.
QueueAfterTimeout(q, c) == q

\* Lines 147-152: the select takes the timer branch.  When a send is ready
\* too, select picks either branch.
AllowTimeout(c) ==
    /\ pc[c] = "waiting"
    /\ TimerFired(c)
    /\ pc' = [pc EXCEPT ![c] = "done"]
    /\ result' = [result EXCEPT ![c] = TimeoutResult]
    /\ queue' = QueueAfterTimeout(queue, c)
    /\ UNCHANGED <<ipCapacity, globalCapacity, globalLimiter, ipLimiters,
                   queueSignal, mutex, clock, key, wait, deadline, admission, dpc,
                   dwait, enqOrder>>
    /\ UNCHANGED bucketVars
    /\ UNCHANGED httpVars

\* A drainer that polls instead of waiting for the doorbell.
DoorbellReady_Polling == TRUE

\* Line 158: for range queueSignal receives one value.
DoorbellReady == queueSignal > 0

DrainerWake ==
    /\ dpc = "recv"
    /\ DoorbellReady
    /\ queueSignal' = 0
    /\ dpc' = "lock"
    /\ UNCHANGED <<ipCapacity, globalCapacity, globalLimiter, ipLimiters, queue,
                   mutex, clock, pc, key, wait, deadline, result, admission, dwait,
                   enqOrder>>
    /\ UNCHANGED bucketVars
    /\ UNCHANGED httpVars

\* Line 159: mutex.Lock().
DrainerLock ==
    /\ dpc = "lock"
    /\ Unlocked
    /\ mutex' = Drainer
    /\ dpc' = "loop"
    /\ UNCHANGED <<ipCapacity, globalCapacity, globalLimiter, ipLimiters, queue,
                   queueSignal, clock, pc, key, wait, deadline, result, admission,
                   dwait, enqOrder>>
    /\ UNCHANGED bucketVars
    /\ UNCHANGED httpVars

\* A loop condition that lets the head through without taking the global
\* token.
DrainGate_NoToken(q, g, ips, keyOf, now) ==
    IF Len(q) > 0
    THEN [ok |-> RateLimiterAllow(g, now).ok, rl |-> Refill(g, now)]
    ELSE [ok |-> FALSE, rl |-> g]

\* A loop condition that asks the global limiter before it looks at the
\* queue.
DrainGate_AllowFirst(q, g, ips, keyOf, now) ==
    IF Len(q) > 0
    THEN RateLimiterAllow(g, now)
    ELSE [ok |-> FALSE, rl |-> RateLimiterAllow(g, now).rl]

\* A loop condition that also asks for a token in the head entry's per-key
\* bucket.
DrainGate_PerKey(q, g, ips, keyOf, now) ==
    IF Len(q) > 0 /\ ips[keyOf[Head(q)]].tokens > 0
    THEN RateLimiterAllow(g, now)
    ELSE [ok |-> FALSE, rl |-> g]

\* Line 161: len(queue) > 0 && globalLimiter.Allow(), with short-circuit.
\* ips and keyOf are not read by the code.
DrainGate(q, g, ips, keyOf, now) ==
    IF Len(q) > 0
    THEN RateLimiterAllow(g, now)
    ELSE [ok |-> FALSE, rl |-> g]

\* A pop that takes the newest entry.
Pop_Last(q) == [wait |-> q[Len(q)], queue |-> SubSeq(q, 1, Len(q) - 1)]

\* A pop that reads the head and leaves it in the queue.
Pop_Keep(q) == [wait |-> Head(q), queue |-> q]

\* Lines 162-163: the entry taken from the queue and the queue left.
Pop(q) == [wait |-> Head(q), queue |-> Tail(q)]

\* Lines 161-163 and 167: one evaluation of the loop condition; pop the
\* head when it holds, unlock and go back to the doorbell when it does not.
DrainerLoop ==
    /\ dpc = "loop"
    /\ mutex = Drainer
    /\ LET gate == DrainGate(queue, globalLimiter, ipLimiters, key, clock)
       IN  /\ globalLimiter' = gate.rl
           /\ IF gate.ok
              THEN /\ dwait' = Pop(queue).wait
                   /\ queue' = Pop(queue).queue
                   /\ dpc' = "send"
                   /\ UNCHANGED mutex
              ELSE /\ mutex' = 0
                   /\ dpc' = "recv"
                   /\ UNCHANGED <<queue, dwait>>
    /\ UNCHANGED <<ipCapacity, globalCapacity, ipLimiters, queueSignal, clock, pc,
                   key, wait, deadline, result, admission, enqOrder>>
    /\ UNCHANGED bucketVars
    /\ UNCHANGED httpVars

\* A drainer that sends false.
SentValue_False == FALSE

\* The value processQueue sends on line 164.
SentValue == TRUE

\* Lines 164-165 with lines 148-149: wait is unbuffered, so the send
\* completes only together with the caller's receive; the caller returns
\* (allowed, "") and processQueue closes the channel.  When the caller has
\* already returned through its timer nothing ever receives and the send
\* stays blocked, so this step is never enabled again.  A caller receives
\* at most once, before the close, so no receive sees a closed channel.
DrainerSend ==
    /\ dpc = "send"
    /\ pc[dwait] = "waiting"
    /\ wait[dwait] = "open"
    /\ wait' = [wait EXCEPT ![dwait] = "closed"]
    /\ pc' = [pc EXCEPT ![dwait] = "done"]
    /\ result' = [result EXCEPT ![dwait] = [allowed |-> SentValue, message |-> ""]]
    /\ dwait' = 0
    /\ dpc' = "loop"
    /\ UNCHANGED <<ipCapacity, globalCapacity, globalLimiter, ipLimiters, queue,
                   queueSignal, mutex, clock, key, deadline, admission, enqOrder>>
    /\ UNCHANGED bucketVars
    /\ UNCHANGED httpVars

Next ==
    \/ Tick
    \/ \E c \in Calls, ip \in Keys : Call(c, ip)
    \/ \E c \in Calls : AllowLock(c)
    \/ \E c \in Calls : AllowBody(c)
    \/ \E c \in Calls : AllowSelect(c)
    \/ \E c \in Calls : AllowTimeout(c)
    \/ DrainerWake
    \/ DrainerLock
    \/ DrainerLoop
    \/ DrainerSend

Spec == Init /\ [][Next]_vars

\* ------------------------------------------------ one RateLimiter alone
\* BucketSpec drives a single RateLimiter, held in globalLimiter, by calls of
\* its Allow method with arbitrary waits between them; nothing else runs.

\* The Go scheduler runs every runnable goroutine, and sync.Mutex hands the
\* lock to a waiter: the drainer's receive and Lock and a caller's critical
\* section are not postponed forever.
\* FairSpec: every configuration and every behaviour of Spec, under that
\* scheduling.
FairSpec ==
    /\ Init
    /\ [][Next]_vars
    /\ WF_vars(DrainerWake)
    /\ WF_vars(DrainerLock)
    /\ \A c \in Calls : WF_vars(AllowBody(c))
    /\ \A c \in Calls : WF_vars(AllowSelect(c))

\* A caller invokes RateLimiter.Allow (lines 51-72) at the current time.
BucketAllow ==
    /\ Len(returns) < MaxBucketCalls
    /\ LET a == RateLimiterAllow(globalLimiter, clock)
       IN  /\ globalLimiter' = a.rl
           /\ returns' = Append(returns, [at |-> clock, ok |-> a.ok])
    /\ UNCHANGED clock
    /\ UNCHANGED compositeVars
    /\ UNCHANGED httpVars

\* The limiter is left idle for a hundred fill intervals.
BucketLongIdle ==
    /\ clock <= MaxClock
    /\ clock' = clock + LongIdleIntervals * globalLimiter.fillInterval
    /\ UNCHANGED <<globalLimiter, returns>>
    /\ UNCHANGED compositeVars
    /\ UNCHANGED httpVars

BucketNext ==
    \/ Tick
    \/ BucketAllow
    \/ BucketLongIdle

BucketSpec == Init /\ [][BucketNext]_vars

\* ------------------------------------------------------ RateLimitMiddleware
\* Line 68 of rate_limit.go: the message used when Allow gives none.
FallbackMessage == "Too many requests"

\* Line 70 of rate_limit.go: http.StatusTooManyRequests.
StatusTooManyRequests == 429

\* Lines 66-74 of rate_limit.go: what the handler does with Allow's result:
\* a 429 response with Allow's message, or the fallback when it is empty, and
\* no call of the next handler; or the call of the next handler, which writes
\* the response itself (status 0 here).
Respond(res) ==
    IF ~res.allowed
    THEN [status |-> StatusTooManyRequests,
          body |-> IF res.message = "" THEN FallbackMessage ELSE res.message,
          next |-> FALSE]
    ELSE [status |-> 0, body |-> "", next |-> TRUE]

\* The requests: a RemoteAddr and the X-Forwarded-For header ("" when the
\* request has none).
Requests == [remoteAddr : Keys, forwardedFor : {""} \cup Keys]

\* A handler that always keys on RemoteAddr.
ClientKey_RemoteOnly(r) == r.remoteAddr

\* Lines 59-62 of rate_limit.go: the key passed to Allow.
ClientKey(r) == IF r.forwardedFor # "" THEN r.forwardedFor ELSE r.remoteAddr

\* Lines 57-65 of rate_limit.go: a handler goroutine takes request r, works
\* out the client key and calls limiter.Allow with it.  The limiter is the one
\* made on line 50, shared by every handler; the call then runs through the
\* steps of Allow above.  Handlers are numbered in the order they start.
HandleRequest(c, r) ==
    /\ pc[c] = "idle"
    /\ \A d \in Calls : d < c => pc[d] # "idle"
    /\ request' = [request EXCEPT ![c] = r]
    /\ key' = [key EXCEPT ![c] = ClientKey(r)]
    /\ pc' = [pc EXCEPT ![c] = "lock"]
    /\ UNCHANGED <<ipCapacity, globalCapacity, globalLimiter, ipLimiters, queue,
                   queueSignal, mutex, clock, wait, deadline, result, admission,
                   dpc, dwait, enqOrder, response>>
    /\ UNCHANGED bucketVars

\* Lines 66-74 of rate_limit.go: Allow has returned to the handler, which
\* answers 429 or calls the next handler.
HandleResponse(c) ==
    /\ pc[c] = "done"
    /\ request[c] # NoRequest
    /\ response[c] = NoResponse
    /\ response' = [response EXCEPT ![c] = Respond(result[c])]
    /\ UNCHANGED <<clock, globalLimiter, request>>
    /\ UNCHANGED compositeVars
    /\ UNCHANGED bucketVars

MiddlewareNext ==
    \/ Tick
    \/ \E c \in Calls, r \in Requests : HandleRequest(c, r)
    \/ \E c \in Calls : AllowLock(c)
    \/ \E c \in Calls : AllowBody(c)
    \/ \E c \in Calls : AllowSelect(c)
    \/ \E c \in Calls : AllowTimeout(c)
    \/ DrainerWake
    \/ DrainerLock
    \/ DrainerLoop
    \/ DrainerSend
    \/ \E c \in Calls : HandleResponse(c)

\* Line 50 of rate_limit.go: the middleware's limiter, here with one token
\* for each key and one for all keys together.
MiddlewareInit == Init /\ ipCapacity = 1 /\ globalCapacity = 1

MiddlewareSpec == MiddlewareInit /\ [][MiddlewareNext]_vars

\* ------------------------------------------------------------- properties
InQueue(c) == \E i \in 1..Len(queue) : queue[i] = c

\* The call was appended to the queue at some time.
Enqueued(c) == wait[c] # "none"

\* processQueue's send on the call's channel was received and the channel closed.
Resolved(c) == wait[c] = "closed"

AdmittedResult == [allowed |-> TRUE, message |-> ""]

\* processQueue holds the mutex and is blocked on line 164 sending to a
\* channel whose only receiver has already returned from Allow.
DrainerAbandoned == dpc = "send" /\ pc[dwait] = "done"

\* Once processQueue is blocked on an abandoned channel it stays so, with
\* the mutex held.
DrainerAbandonedIsStable ==
    [][DrainerAbandoned => (DrainerAbandoned' /\ mutex' = Drainer)]_vars

\* The capacities and the fill interval are all positive.
ValidConfig ==
    ipCapacity > 0 /\ globalCapacity > 0 /\ globalLimiter.fillInterval > 0

\* C1: when an entry whose caller already returned through its timeout is
\* popped, the drainer still completes the send and close, releases the
\* mutex and returns to the doorbell: it is never blocked on a wait handle
\* that nobody will receive from (stated for positive configurations).
C1_DrainerNeverBlocked == ValidConfig => ~DrainerAbandoned

\* C2: every Allow call eventually returns and a caller is suspended only on
\* its own wait handle: no caller waits at mutex.Lock() in a state where the
\* mutex can never be released.
C2_NoCallerStuckAtLock ==
    \A c \in Calls : pc[c] = "lock" => ~(mutex = Drainer /\ DrainerAbandoned)

\* C3: an enqueued caller that has returned got (true, "") exactly when the
\* drainer resolved its wait handle, and the timed-out result otherwise; an
\* enqueued caller that has not returned has no result.
C3_EnqueuedOutcome ==
    \A c \in Calls :
        Enqueued(c) =>
            /\ pc[c] \in {"select", "waiting", "done"}
            /\ (pc[c] = "done" /\ Resolved(c)) => result[c] = AdmittedResult
            /\ (pc[c] = "done" /\ ~Resolved(c)) => result[c] = TimeoutResult
            /\ pc[c] \in {"select", "waiting"} => ~Resolved(c)
            /\ TimeoutResult.message # ""

C3_Witness ==
    \E c, d \in Calls :
        /\ pc[c] = "done" /\ Resolved(c) /\ result[c] = AdmittedResult
        /\ pc[d] = "done" /\ Enqueued(d) /\ ~Resolved(d) /\ result[d] = TimeoutResult

\* C4: an Allow call in which the global limiter denies leaves the key's
\* limiter as it was; a limiter created by that call keeps its full capacity.
C4_GlobalDenyShortCircuit ==
    [][\A c \in Calls :
          (pc[c] = "locked" /\ pc'[c] # "locked"
           /\ ~RateLimiterAllow(globalLimiter, clock).ok)
          => IF ipLimiters[key[c]] # NoLimiter
             THEN ipLimiters'[key[c]] = ipLimiters[key[c]]
             ELSE /\ ipLimiters'[key[c]].tokens = ipCapacity
                  /\ ipLimiters'[key[c]].capacity = ipCapacity
                  /\ ipLimiters'[key[c]].lastTokenTime = clock]_vars

C4_Witness ==
    \E c \in Calls :
        /\ admission[c] = "globalDeny"
        /\ ipCapacity > 0
        /\ ipLimiters[key[c]].tokens = ipCapacity

\* C5: an Allow call in which the global limiter admits and the key's
\* limiter denies takes exactly one global token and enqueues the caller;
\* afterwards the global token count only grows by a refill.
C5_GlobalTokenSpentOnKeyDeny ==
    [][/\ \A c \in Calls :
            (pc[c] = "locked" /\ pc'[c] # "locked"
             /\ Refill(globalLimiter, clock).tokens >= 1
             /\ Refill(GetOrCreate(ipLimiters, key[c], clock), clock).tokens <= 0)
            => /\ globalLimiter'.tokens = Refill(globalLimiter, clock).tokens - 1
               /\ (Refill(globalLimiter, clock) = globalLimiter
                     => globalLimiter'.tokens = globalLimiter.tokens - 1)
               /\ pc'[c] = "select"
               /\ queue' = Append(queue, c)
       /\ globalLimiter'.tokens > globalLimiter.tokens
            => /\ clock - globalLimiter.lastTokenTime >= globalLimiter.fillInterval
               /\ globalLimiter'.lastTokenTime = clock]_vars

C5_Witness ==
    \E c \in Calls :
        /\ admission[c] = "ipDeny"
        /\ pc[c] = "waiting"
        /\ InQueue(c)
        /\ ipCapacity > 0
        /\ globalLimiter.tokens = globalCapacity - 2

\* C6: the drainer pops an entry exactly when the queue is non-empty and the
\* global limiter admits; it never reads or changes a per-key limiter, and
\* the popped caller, once it receives, returns true.
C6_DrainGatedOnGlobalOnly ==
    [][/\ (dpc = "loop" /\ dpc' # "loop")
            => /\ dpc' = "send" <=>
                    (Len(queue) > 0 /\ RateLimiterAllow(globalLimiter, clock).ok)
               /\ ipLimiters' = ipLimiters
       /\ (dpc = "send" /\ dpc' # "send")
            => /\ result'[dwait] = AdmittedResult
               /\ ipLimiters' = ipLimiters]_vars

\* With no time elapsed, more calls of one key returned true than the
\* per-key capacity, one of them through the queue with the bucket empty.
C6_Witness ==
    \E k \in Keys :
        /\ clock = 0
        /\ ipCapacity > 0
        /\ ipLimiters[k].tokens = 0
        /\ Cardinality({c \in Calls : key[c] = k /\ pc[c] = "done" /\ result[c].allowed})
              > ipCapacity
        /\ \E c \in Calls : key[c] = k /\ Resolved(c) /\ admission[c] = "ipDeny"

\* C7: entries leave the queue and are resolved in the order they were
\* appended: an entry is popped or resolved only after every entry
\* appended before it, and the queue holds the un-popped entries in order.
C7_FIFO ==
    /\ \A i, j \in 1..Len(enqOrder) :
          i < j =>
            /\ InQueue(enqOrder[i]) => InQueue(enqOrder[j])
            /\ Resolved(enqOrder[j]) => Resolved(enqOrder[i])
    /\ queue = SubSeq(enqOrder, Len(enqOrder) - Len(queue) + 1, Len(enqOrder))

C7_Witness ==
    /\ Len(enqOrder) = 2
    /\ enqOrder[1] > enqOrder[2]
    /\ Resolved(enqOrder[1])
    /\ pc[enqOrder[2]] = "waiting"
    /\ queue = <<enqOrder[2]>>
    /\ dpc = "recv"

\* The drainer waits on an empty doorbell while entries are queued.
Starved == dpc = "recv" /\ queueSignal = 0 /\ Len(queue) > 0

\* C8: while the drainer waits on an empty doorbell with entries queued, any
\* step that is not a new enqueue leaves the drainer waiting and the queue
\* as it is, and a queued caller that returns does so with the timed-out
\* result.
C8_StarvationWithoutResignal ==
    [][(Starved /\ Len(queue') <= Len(queue))
         => /\ Starved'
            /\ queue' = queue
            /\ \A c \in Calls :
                  (InQueue(c) /\ pc[c] # "done" /\ pc'[c] = "done")
                    => result'[c] = TimeoutResult]_vars

\* The drainer is starved although a drain pass would now find a global
\* token, and a queued caller has returned through its timeout.
C8_Witness ==
    /\ Starved
    /\ globalLimiter.tokens = 0
    /\ RateLimiterAllow(globalLimiter, clock).ok
    /\ \E c \in Calls : InQueue(c) /\ pc[c] = "done" /\ result[c] = TimeoutResult

\* C9: no Allow call runs against a limiter constructed with a non-positive
\* capacity or fill interval.
C9_NonPositiveConfigRejected ==
    (\E c \in Calls : pc[c] # "idle")
        => (ipCapacity > 0 /\ globalCapacity > 0 /\ globalLimiter.fillInterval > 0)

\* The calls that have evaluated line 126.
PastAdmission == {c \in Calls : admission[c] # "none"}

\* C10: with no time elapsed, when the N calls that have evaluated line 126
\* all name one key, the per-key capacity C is below N and the global
\* capacity is at least N, exactly C of them were admitted immediately and
\* the key's limiter has given out exactly those C tokens.
C10_NoDoubleConsumption ==
    \A k \in Keys :
        LET P == PastAdmission
            Immediate == {c \in P : admission[c] = "immediate"}
        IN  (/\ clock = 0
             /\ \A c \in P : key[c] = k
             /\ 0 <= ipCapacity
             /\ ipCapacity < Cardinality(P)
             /\ Cardinality(P) <= globalCapacity)
            => /\ Cardinality(Immediate) = ipCapacity
               /\ ipLimiters[k].tokens = 0
               /\ \A c \in Immediate : result[c] = AdmittedResult

C10_Witness ==
    /\ clock = 0
    /\ PastAdmission = Calls
    /\ \A c \in Calls : key[c] = "a"
    /\ ipCapacity = 1
    /\ Cardinality({c \in Calls : admission[c] = "immediate"}) = 1

\* BucketSpec: the calls made at time t that returned true.
AdmittedAt(t) == {i \in 1..Len(returns) : returns[i].at = t /\ returns[i].ok}

\* C11: the limiter holds between 0 and capacity tokens in every state, and
\* however long it was idle before, the calls made with no further time
\* elapsing succeed at most capacity times.
C11_TokenBound ==
    /\ 0 <= globalLimiter.tokens
    /\ globalLimiter.tokens <= globalLimiter.capacity
    /\ \A i \in 1..Len(returns) :
          Cardinality(AdmittedAt(returns[i].at)) <= globalLimiter.capacity

\* After a long idle period a limiter of positive capacity admitted exactly
\* capacity calls and denied the next one.
C11_Witness ==
    /\ globalLimiter.capacity > 0
    /\ clock > MaxClock
    /\ Cardinality(AdmittedAt(clock)) = globalLimiter.capacity
    /\ Len(returns) > 0
    /\ returns[Len(returns)] = [at |-> clock, ok |-> FALSE]

\* C12: while less than one fill interval has passed since construction, the
\* i-th call of a fresh limiter of capacity C returns true exactly when i <= C:
\* the first C calls are admitted and the (C+1)th is denied.
C12_FreshBucketBurst ==
    clock < globalLimiter.fillInterval =>
        \A i \in 1..Len(returns) : returns[i].ok = (i <= globalLimiter.capacity)

\* A fresh limiter of positive capacity has taken capacity + 1 calls before
\* one fill interval has passed.
C12_Witness ==
    /\ clock < globalLimiter.fillInterval
    /\ globalLimiter.capacity > 0
    /\ Len(returns) = globalLimiter.capacity + 1
    /\ ~returns[Len(returns)].ok

\* BucketSpec: the time of the latest call (of construction if none was made).
LastCall == IF returns = <<>> THEN 0 ELSE returns[Len(returns)].at

\* C13: a call on a limiter of positive capacity that holds no token and has
\* seen no call for at least one fill interval returns true.
C13_DrainedThenIdle ==
    [][(/\ Len(returns') = Len(returns) + 1
        /\ globalLimiter.capacity > 0
        /\ globalLimiter.tokens = 0
        /\ clock - LastCall >= globalLimiter.fillInterval)
       => returns'[Len(returns')].ok]_vars

\* A call was denied, so the bucket was empty after it; the next call came at
\* least one fill interval later and was admitted.
C13_Witness ==
    /\ Len(returns) >= 2
    /\ globalLimiter.capacity > 0
    /\ ~returns[Len(returns) - 1].ok
    /\ returns[Len(returns)].at - returns[Len(returns) - 1].at
          >= globalLimiter.fillInterval
    /\ returns[Len(returns)].ok

\* C14: an Allow call that finds a token in the global limiter and in the
\* key's limiter returns (true, "") without entering the queue; it takes
\* exactly one token from each of the two and leaves the queue, the doorbell
\* and every other key's limiter unchanged.
C14_ImmediateAdmission ==
    [][\A c \in Calls :
          (/\ pc[c] = "locked" /\ pc'[c] # "locked"
           /\ Refill(globalLimiter, clock).tokens >= 1
           /\ Refill(GetOrCreate(ipLimiters, key[c], clock), clock).tokens >= 1)
          => /\ pc'[c] = "done"
             /\ result'[c] = AdmittedResult
             /\ wait'[c] = "none"
             /\ globalLimiter'.tokens = Refill(globalLimiter, clock).tokens - 1
             /\ ipLimiters'[key[c]].tokens
                   = Refill(GetOrCreate(ipLimiters, key[c], clock), clock).tokens - 1
             /\ queue' = queue
             /\ queueSignal' = queueSignal
             /\ \A k \in Keys \ {key[c]} : ipLimiters'[k] = ipLimiters[k]]_vars

\* Two calls on different keys were both admitted at once; each took one
\* global token and one token of its own key.
C14_Witness ==
    \E c, d \in Calls :
        /\ key[c] # key[d]
        /\ admission[c] = "immediate" /\ admission[d] = "immediate"
        /\ result[c] = AdmittedResult /\ result[d] = AdmittedResult
        /\ ~Enqueued(c) /\ ~Enqueued(d)
        /\ globalLimiter.tokens = globalCapacity - 2
        /\ ipLimiters[key[c]].tokens = ipCapacity - 1
        /\ ipLimiters[key[d]].tokens = ipCapacity - 1

\* C15: the timer of an enqueued caller is armed for Timeout when the
\* caller enters its select, not before, and never re-armed; the caller
\* returns false only once that time has come, with the timed-out message,
\* and a caller whose time has come while its entry is unresolved can return.
C15_TimeoutBoundary ==
    [][\A c \in Calls :
          /\ pc[c] = "select"
                => /\ pc'[c] \in {"select", "waiting"}
                   /\ pc'[c] = "waiting" => deadline'[c] = clock + Timeout
                   /\ pc'[c] = "select" => deadline'[c] = deadline[c]
          /\ pc'[c] = "waiting" => pc[c] \in {"select", "waiting"}
          /\ pc[c] = "waiting" => deadline'[c] = deadline[c]
          /\ (pc[c] = "waiting" /\ pc'[c] = "done" /\ ~result'[c].allowed)
                => /\ clock >= deadline[c]
                   /\ result'[c] = TimeoutResult
                   /\ ~Resolved(c)
          /\ (pc[c] = "waiting" /\ ~Resolved(c) /\ clock >= deadline[c])
                => ENABLED AllowTimeout(c)]_vars

\* A caller that entered its select at time 0 stayed in the saturated queue
\* until its timer fired and returned the timed-out result.
C15_Witness ==
    \E c \in Calls :
        /\ pc[c] = "done"
        /\ InQueue(c)
        /\ ~Resolved(c)
        /\ deadline[c] = Timeout
        /\ clock >= deadline[c]
        /\ result[c] = TimeoutResult

\* The limiter a first call for a key creates at the current time.
FreshIpLimiter == NewRateLimiter(ipCapacity, globalLimiter.fillInterval, clock)

\* C16: every Allow call leaves its key in the map; a key enters the map only
\* through an Allow call naming it, with a limiter created full at the per-key
\* capacity and the global fill interval; a key in the map stays there with the
\* same capacity and fill interval, and its limiter changes only by its own
\* Allow.
C16_RegistryStability ==
    [][/\ \A c \in Calls :
            (pc[c] = "locked" /\ pc'[c] # "locked")
               => ipLimiters'[key[c]] # NoLimiter
       /\ \A k \in Keys :
            IF ipLimiters[k] # NoLimiter
            THEN /\ ipLimiters'[k] # NoLimiter
                 /\ ipLimiters'[k].capacity = ipLimiters[k].capacity
                 /\ ipLimiters'[k].fillInterval = ipLimiters[k].fillInterval
                 /\ \/ ipLimiters'[k] = ipLimiters[k]
                    \/ ipLimiters'[k] = RateLimiterAllow(ipLimiters[k], clock).rl
            ELSE ipLimiters'[k] # NoLimiter
                    => /\ \E c \in Calls :
                             pc[c] = "locked" /\ pc'[c] # "locked" /\ key[c] = k
                       /\ \/ ipLimiters'[k] = FreshIpLimiter
                          \/ ipLimiters'[k] = RateLimiterAllow(FreshIpLimiter, clock).rl]_vars

\* A later call for a key was denied by the limiter an earlier call for that
\* key had created and emptied.
C16_Witness ==
    /\ ipCapacity > 0
    /\ \E c, d \in Calls :
          /\ key[c] = key[d]
          /\ admission[c] = "immediate"
          /\ admission[d] = "ipDeny"
          /\ ipLimiters[key[c]].capacity = ipCapacity
          /\ ipLimiters[key[c]].tokens = 0

\* An entry the drainer has taken from the queue.
Popped(c) == Enqueued(c) /\ ~InQueue(c)

\* The loop of a drain pass: an evaluation of the loop condition pops the head
\* and takes a global token when the queue is non-empty and the global limiter
\* admits, and otherwise ends the pass with the queue as it was; after a
\* resolve the condition is evaluated again; the queue changes only by a pop
\* of its head or an append at its end.
DrainLoopLogic ==
    [][/\ (dpc = "loop" /\ dpc' # "loop")
            => IF Len(queue) > 0 /\ RateLimiterAllow(globalLimiter, clock).ok
               THEN /\ dpc' = "send"
                    /\ dwait' = Head(queue)
                    /\ queue' = Tail(queue)
                    /\ globalLimiter' = RateLimiterAllow(globalLimiter, clock).rl
                    /\ mutex' = Drainer
               ELSE /\ dpc' = "recv"
                    /\ queue' = queue
                    /\ mutex' = 0
                    /\ Len(queue) = 0 => globalLimiter' = globalLimiter
       /\ (dpc = "send" /\ dpc' # "send")
            => /\ dpc' = "loop"
               /\ result'[dwait] = AdmittedResult
               /\ queue' = queue
       /\ queue' # queue
            => \/ dpc = "loop" /\ queue' = Tail(queue)
               \/ \E c \in Calls : queue' = Append(queue, c)]_vars

\* C17: every entry the drainer pops is resolved as admitted, so a caller
\* whose entry was popped and who has returned has returned (true, "").
C17_DrainPass ==
    ValidConfig =>
        \A c \in Calls : (Popped(c) /\ pc[c] = "done") => result[c] = AdmittedResult

\* C18: at most one wake-up is pending on the doorbell, and a caller that
\* holds the mutex while a wake-up is already pending can still complete its
\* critical section, signal included.
C18_DoorbellCoalescing ==
    /\ queueSignal \in {0, 1}
    /\ \A c \in Calls :
          (queueSignal = 1 /\ pc[c] = "locked") => ENABLED AllowBody(c)

\* Two callers enqueued before the drainer consumed a signal, and one wake-up
\* is pending.
C18_Witness ==
    /\ dpc = "recv"
    /\ Len(queue) = 2
    /\ \A c \in Calls : pc[c] = "waiting"
    /\ queueSignal = 1

\* C19: the pass that follows a burst of enqueues releases queued entries
\* for as long as the global limiter has tokens for them, so a pass that makes
\* no further progress has left the queue empty or the global limiter without
\* a token for the next entry.
C19_BurstDrainedInOnePass ==
    DrainerAbandoned => (Len(queue) = 0 \/ ~RateLimiterAllow(globalLimiter, clock).ok)

\* The processes inside the critical section of the limiter's mutex.
InCritical ==
    {c \in Calls : pc[c] = "locked"}
        \cup (IF dpc \in {"loop", "send"} THEN {Drainer} ELSE {})

\* C20: at most one process is inside the critical section and it is the
\* holder of the mutex; every change to the global limiter, to a per-key
\* limiter or the map, and to the queue is made by that holder: by an Allow
\* caller in its own critical section, which touches only its own key's entry,
\* or by the one drainer in its loop, which touches no per-key limiter.
C20_SingleMutexDomain ==
    [][/\ InCritical = (IF mutex = 0 THEN {} ELSE {mutex})
       /\ (globalLimiter' # globalLimiter \/ ipLimiters' # ipLimiters \/ queue' # queue)
            => /\ mutex # 0
               /\ InCritical = {mutex}
               /\ mutex \in Calls
                    => /\ pc'[mutex] # "locked"
                       /\ \A k \in Keys \ {key[mutex]} : ipLimiters'[k] = ipLimiters[k]
               /\ mutex = Drainer
                    => /\ dpc = "loop"
                       /\ ipLimiters' = ipLimiters]_vars

\* A caller is inside the critical section and has changed nothing yet while
\* the drainer, woken by an earlier enqueue, is waiting for the mutex.
C20_Witness ==
    \E c \in Calls :
        /\ pc[c] = "locked"
        /\ mutex = c
        /\ dpc = "lock"
        /\ Len(queue) > 0

\* C21: a caller that waits on its wait handle does not hold the mutex: the
\* step that starts the wait has released it, as has the immediate return.
C21_NoMutexWhileWaiting ==
    [][/\ \A c \in Calls : pc[c] \in {"select", "waiting", "done"} => mutex # c
       /\ \A c \in Calls :
            (pc[c] = "locked" /\ pc'[c] # "locked")
               => /\ mutex = c
                  /\ mutex' = 0
                  /\ pc'[c] \in {"select", "done"}
       /\ \A c \in Calls :
            pc'[c] = "waiting" => pc[c] \in {"select", "waiting"}]_vars

\* A caller waits on its handle while the drainer holds the mutex.
C21_Witness ==
    \E c \in Calls :
        /\ pc[c] = "waiting"
        /\ wait[c] = "open"
        /\ mutex = Drainer

\* C22: a caller that returns through its timeout leaves the queue as it
\* was, its entry included; an entry leaves the queue only when the drainer,
\* evaluating its loop condition, pops the head.
C22_TimeoutKeepsQueue ==
    [][/\ \A c \in Calls :
            (pc[c] = "waiting" /\ pc'[c] = "done" /\ ~result'[c].allowed)
               => queue' = queue
       /\ \A i \in 1..(IF queue' # queue THEN Len(queue) ELSE 0) :
            (\A j \in 1..Len(queue') : queue'[j] # queue[i])
               => /\ i = 1
                  /\ dpc = "loop"
                  /\ mutex = Drainer
                  /\ queue' = Tail(queue)
                  /\ dwait' = queue[i]]_vars

\* The caller at the head of the queue has returned through its timeout and
\* its entry is still at the head, in front of a later entry.
C22_Witness ==
    /\ Len(queue) = 2
    /\ pc[queue[1]] = "done"
    /\ result[queue[1]] = TimeoutResult
    /\ enqOrder = queue

\* C23: a caller's wait handle is appended once and popped at most once; it
\* goes from open to closed only by the drainer's send and close on the entry
\* it holds, is never popped again or sent to once closed, and stays closed.
C23_ResolvedAtMostOnce ==
    [][/\ queue' # queue
            => /\ \A i, j \in 1..Len(enqOrder') : enqOrder'[i] = enqOrder'[j] => i = j
               /\ \A i, j \in 1..Len(queue') : queue'[i] = queue'[j] => i = j
               /\ \A i \in 1..Len(queue') :
                     wait'[queue'[i]] = "open" /\ dwait' # queue'[i]
               /\ Len(queue') > Len(queue)
                     => /\ wait[queue'[Len(queue')]] = "none"
                        /\ queue' = Append(queue, queue'[Len(queue')])
       /\ wait' # wait
            => \A c \in Calls :
                  /\ (wait[c] = "none" /\ wait'[c] # "none")
                        => /\ wait'[c] = "open"
                           /\ queue' = Append(queue, c)
                  /\ (wait[c] = "open" /\ wait'[c] # "open")
                        => /\ wait'[c] = "closed"
                           /\ dpc = "send" /\ dwait = c
                  /\ wait[c] = "closed" => wait'[c] = "closed"
       /\ (dwait' # dwait /\ dwait' # 0)
            => /\ wait[dwait'] = "open"
               /\ dwait' = Head(queue)]_vars

\* Every caller was enqueued, popped and resolved, and the pass is over.
C23_Witness ==
    /\ \A c \in Calls : Resolved(c) /\ result[c] = AdmittedResult
    /\ queue = <<>>
    /\ dpc = "recv"

\* C24: a call at time clock with tokensToAdd = floor((clock - lastTokenTime)
\* / fillInterval) first sets tokens to min(capacity, tokens + tokensToAdd) and
\* lastTokenTime to clock when tokensToAdd > 0, and leaves both alone when it
\* is 0; the consume step then acts on that token count.  lastTokenTime never
\* decreases.
C24_RefillStep ==
    [][/\ globalLimiter'.lastTokenTime >= globalLimiter.lastTokenTime
       /\ Len(returns') = Len(returns) + 1
            => LET tokensToAdd ==
                       (clock - globalLimiter.lastTokenTime) \div globalLimiter.fillInterval
                   refilled ==
                       IF tokensToAdd > 0
                       THEN IF globalLimiter.tokens + tokensToAdd < globalLimiter.capacity
                            THEN globalLimiter.tokens + tokensToAdd
                            ELSE globalLimiter.capacity
                       ELSE globalLimiter.tokens
                   ok == returns'[Len(returns')].ok
               IN  /\ ok = (refilled > 0)
                   /\ globalLimiter'.tokens = (IF ok THEN refilled - 1 ELSE refilled)
                   /\ globalLimiter'.lastTokenTime
                         = (IF tokensToAdd > 0 THEN clock
                            ELSE globalLimiter.lastTokenTime)]_vars

\* The first call came after more than one fill interval, not at a multiple
\* of it: the refill moved lastTokenTime to the time of the call.
C24_Witness ==
    /\ Len(returns) = 1
    /\ returns[1].at > globalLimiter.fillInterval
    /\ returns[1].at % globalLimiter.fillInterval # 0
    /\ globalLimiter.lastTokenTime = returns[1].at

\* C25: a call returns false exactly when the refill leaves no token; it then
\* leaves tokens at 0 and the capacity and fill interval as they were, and
\* when less than one fill interval has elapsed since lastTokenTime the whole
\* limiter is as it was before the call.
C25_DeniedCallFrame ==
    [][Len(returns') = Len(returns) + 1
          => /\ ~returns'[Len(returns')].ok <=> Refill(globalLimiter, clock).tokens = 0
             /\ ~returns'[Len(returns')].ok
                   => /\ globalLimiter'.tokens = 0
                      /\ globalLimiter'.capacity = globalLimiter.capacity
                      /\ globalLimiter'.fillInterval = globalLimiter.fillInterval
                      /\ (clock - globalLimiter.lastTokenTime < globalLimiter.fillInterval)
                            => globalLimiter' = globalLimiter]_vars

\* A limiter of positive capacity was emptied and then denied a call that
\* came less than one fill interval after its last refill: lastTokenTime is
\* still earlier than the denied call.
C25_Witness ==
    /\ Len(returns) >= 2
    /\ globalLimiter.capacity > 0
    /\ ~returns[Len(returns)].ok
    /\ globalLimiter.tokens = 0
    /\ globalLimiter.lastTokenTime < returns[Len(returns)].at
    /\ returns[Len(returns)].at - globalLimiter.lastTokenTime < globalLimiter.fillInterval

\* The calls that have returned true.
Trues == {c \in Calls : pc[c] = "done" /\ result[c].allowed}

\* The tokens taken from the global limiter so far: one by each caller whose
\* own evaluation of the global limiter admitted, one by the drainer for each
\* entry it popped.
Taken ==
    Cardinality({c \in Calls : admission[c] \in {"immediate", "ipDeny"}})
        + Cardinality({c \in Calls : Popped(c)})

\* C26: every true result has its own decrement of the global limiter, the
\* caller's own when it was admitted at once and the drainer's for its pop
\* otherwise, so the true results never outnumber the tokens taken; each step
\* takes at most one token and the global count moves by exactly the tokens
\* the step's refill added minus the token taken, never below 0, so the tokens
\* taken never exceed the capacity plus the tokens added by refills.
C26_GlobalQuota ==
    [][/\ result' # result
            => /\ \A c \in Trues' :
                     IF Enqueued(c)' THEN Popped(c)' ELSE admission'[c] = "immediate"
               /\ Cardinality(Trues') <= Taken'
       /\ globalLimiter'.tokens >= 0
       /\ (globalLimiter' # globalLimiter \/ admission' # admission \/ queue' # queue)
            => /\ Taken' - Taken \in {0, 1}
               /\ Taken' - Taken
                     = Refill(globalLimiter, clock).tokens - globalLimiter'.tokens]_vars

\* One call was admitted at once and another through the queue: two true
\* results for the three global tokens taken.
C26_Witness ==
    /\ Cardinality(Trues) = 2
    /\ \E c \in Trues : Resolved(c)
    /\ Taken = 3
    /\ globalLimiter.tokens = globalCapacity - 3

\* The drainer is outside a pass and will begin one: a signal is waiting for
\* its receive, or it has received one and is about to lock.
WakePending == (dpc = "recv" /\ queueSignal = 1) \/ dpc = "lock"

\* C27: an append happens outside a drain pass and leaves a wake-up pending,
\* whether the doorbell was empty, already full, or already consumed by a
\* drainer waiting for the mutex; a pending wake-up ends only by the drainer
\* taking the mutex, with the queue as the append left it; and under fair
\* scheduling the drainer, not being blocked on a wait handle, then begins a
\* pass with the entry still in the queue.
C27_NoLostWakeup ==
    /\ [][/\ Len(queue') > Len(queue) => WakePending'
          /\ (WakePending /\ ~WakePending')
                => /\ dpc = "lock" /\ dpc' = "loop"
                   /\ mutex' = Drainer
                   /\ queue' = queue]_vars
    /\ \A c \in Calls :
          (InQueue(c) /\ WakePending)
             ~> (dpc = "loop" /\ mutex = Drainer /\ InQueue(c))

\* A pass has begun with two entries in the queue and the doorbell full
\* again: the second entry was appended while the drainer, having consumed
\* the first signal, was waiting for the mutex.
C27_Witness ==
    /\ dpc = "loop"
    /\ mutex = Drainer
    /\ Len(queue) = 2
    /\ queueSignal = 1
    /\ \A c \in Calls : InQueue(c) /\ Enqueued(c)

\* The entries the drainer has popped so far.
PoppedCount == Cardinality({c \in Calls : Popped(c)})

\* C28: a step of the drainer takes a global token exactly when it pops, one
\* token for one entry; an evaluation of the loop condition on an empty queue
\* leaves the global limiter as it was, and the drainer's other steps never
\* touch it.
C28_DrainerTokenPerPop ==
    [][/\ (dpc = "loop" /\ dpc' # "loop")
            => /\ PoppedCount' - PoppedCount
                     = (IF Len(queue) > 0
                        THEN Refill(globalLimiter, clock).tokens
                        ELSE globalLimiter.tokens) - globalLimiter'.tokens
               /\ PoppedCount' - PoppedCount \in {0, 1}
               /\ PoppedCount' > PoppedCount <=> (Len(queue) > 0 /\ queue' = Tail(queue))
               /\ Len(queue) = 0 => globalLimiter' = globalLimiter
       /\ (dpc # "loop" /\ dpc' # dpc) => globalLimiter' = globalLimiter
       /\ Len(queue') < Len(queue) => (dpc = "loop" /\ dpc' = "send")]_vars

\* The drainer evaluates its loop condition on an empty queue while the
\* global limiter has a token to give.
C28_Witness ==
    /\ dpc = "loop"
    /\ mutex = Drainer
    /\ queue = <<>>
    /\ Refill(globalLimiter, clock).tokens > 0
    /\ PoppedCount > 0

\* C29: no call returns (false, ""): a false result carries the non-empty
\* timed-out message and belongs to a caller that was enqueued and whose timer
\* has fired; a caller that received from its wait handle returned true; so
\* the handler never answers with the fallback message.
C29_NoImmediateDeny ==
    \A c \in Calls :
        pc[c] = "done"
           => /\ result[c] # [allowed |-> FALSE, message |-> ""]
              /\ ~result[c].allowed
                    => /\ result[c].message = TimeoutMessage
                       /\ result[c].message # ""
                       /\ Enqueued(c) /\ ~Resolved(c)
                       /\ admission[c] \in {"globalDeny", "ipDeny"}
                       /\ clock >= deadline[c]
              /\ Resolved(c) => result[c] = AdmittedResult
              /\ Respond(result[c]).body # FallbackMessage

\* A caller the global limiter denied on arrival was answered, after its
\* timeout, with status 429 and the timed-out message.
C29_Witness ==
    \E c \in Calls :
        /\ pc[c] = "done"
        /\ admission[c] = "globalDeny"
        /\ ValidConfig
        /\ Respond(result[c]) = [status |-> StatusTooManyRequests,
                                 body |-> TimeoutMessage, next |-> FALSE]

\* The requests the next handler was called for.
Passed == {c \in Calls : response[c] # NoResponse /\ response[c].next}

\* C30: the next handler is invoked for a request exactly when Allow returned
\* true for it; otherwise the response is a 429 and the next handler is not
\* invoked; the key given to Allow is the X-Forwarded-For value when the
\* request has one and its RemoteAddr otherwise; and the requests share one
\* limiter: before the first refill no more requests are passed on than the
\* global capacity, whatever their keys.
C30_MiddlewareGate ==
    /\ \A c \in Calls :
          /\ response[c] # NoResponse
                => /\ pc[c] = "done"
                   /\ response[c].next <=> result[c].allowed
                   /\ ~result[c].allowed
                         => /\ response[c].status = StatusTooManyRequests
                            /\ response[c].body = result[c].message
                            /\ ~response[c].next
          /\ (request[c] # NoRequest /\ request[c].forwardedFor # "")
                => key[c] = request[c].forwardedFor
          /\ (request[c] # NoRequest /\ request[c].forwardedFor = "")
                => key[c] = request[c].remoteAddr
    /\ clock < globalLimiter.fillInterval
          => Cardinality(Passed) <= globalCapacity

\* A request with a forwarded address of its own was passed on, and a
\* request of another key, without the header, was answered 429: the first
\* had taken the one global token.
C30_Witness ==
    \E c, d \in Calls :
        /\ request[c].forwardedFor \notin {"", request[c].remoteAddr}
        /\ response[c].next
        /\ request[d] # NoRequest
        /\ request[d].forwardedFor = ""
        /\ key[d] # key[c]
        /\ response[d].status = StatusTooManyRequests
        /\ ~response[d].next
        /\ response[d].body = TimeoutMessage

====
